---- MODULE Spec2Model ----
(***************************************************************************)
(* Model of src/main.py: the mute-state classifier (is_muted_state), the   *)
(* timer registry (mute_tasks, start_or_replace_timer, cancel_timer), the  *)
(* reminder task (reminder_task) and the event handler                     *)
(* (on_voice_state_update).                                                *)
(*                                                                         *)
(* Time is discrete: one Tick is check_interval seconds.  A task that is   *)
(* ready to run (just created, woken, cancel requested, send completed)    *)
(* runs before the clock advances; events may interleave anywhere.         *)
(***************************************************************************)
EXTENDS Integers, FiniteSets, Sequences, TLC

\* ------------------------------------------------------------------ bounds
MaxTasks == 3            \* tasks ever created by asyncio.create_task
MaxReminderMinutes == 1  \* REMINDER_MINUTES is drawn from 1..MaxReminderMinutes
MaxRepeatMinutes == 1    \* REPEAT_INTERVAL_MINUTES is drawn from 0..MaxRepeatMinutes
MaxSent == 1             \* the per-task notification counter saturates here

\* --------------------------------------------------------------- constants
check_interval == 10

Max(a, b) == IF a >= b THEN a ELSE b
Min(a, b) == IF a <= b THEN a ELSE b

\* MuteKey = (guild id, member id)
Keys == {<<1, 1>>, <<1, 2>>}
GuildIds == {k[1] : k \in Keys}
TaskIds == 1..MaxTasks

NoChannel == "None"
VoiceChannels == {"vc1", "vc2"}
StageChannels == {"stage"}
Channels == VoiceChannels \cup StageChannels

\* Optional[discord.VoiceState]
None == [kind |-> "None"]
VoiceState(sm, m, sd, d, ch) ==
    [kind |-> "VoiceState", self_mute |-> sm, mute |-> m,
     self_deaf |-> sd, deaf |-> d, channel |-> ch]
AllVoiceStates ==
    {VoiceState(sm, m, sd, d, ch) :
        sm \in BOOLEAN, m \in BOOLEAN, sd \in BOOLEAN, d \in BOOLEAN,
        ch \in Channels \cup {NoChannel}}
\* the statuses the member of the timed model moves through: the self flags,
\* in a voice channel or in no channel
EventVoiceStates ==
    {VoiceState(sm, FALSE, sd, FALSE, ch) :
        sm \in BOOLEAN, sd \in BOOLEAN, ch \in {"vc1", NoChannel}}
\* the same, and self-muted in a stage channel
StageVoiceStates ==
    EventVoiceStates \cup {VoiceState(TRUE, FALSE, FALSE, FALSE, "stage")}

VARIABLES
    REMINDER_MINUTES,          \* configuration, fixed at process start
    REPEAT_INTERVAL_MINUTES,
    COUNT_DEAF_AS_MUTE,
    FALLBACK_TEXT_CHANNEL_ID,
    guilds,                    \* guild ids bot.get_guild resolves
    members,                   \* keys guild.get_member resolves
    voice,                     \* member.voice, per key
    mute_tasks,                \* the registry: key -> task id
    task,                      \* task id -> the asyncio.Task and its coroutine
    sinceRise,                 \* seconds since the key's latest rising edge (capped)
    falseAge,                  \* seconds the key's Condition has been false (capped)
    scenario,                  \* progress of the key through the example sequence
    lastEvent,                 \* the latest event: its key, was_muted, now_muted
    callArg, called, callRes   \* last direct call of is_muted_state

cfgVars == <<REMINDER_MINUTES, REPEAT_INTERVAL_MINUTES, COUNT_DEAF_AS_MUTE,
             FALLBACK_TEXT_CHANNEL_ID>>
envVars == <<guilds, members, voice>>
callVars == <<callArg, called, callRes>>
ghostVars == <<sinceRise, falseAge, scenario, lastEvent>>
vars == <<cfgVars, envVars, mute_tasks, task, ghostVars, callVars>>

\* mutants of is_muted_state: COUNT_DEAF_AS_MUTE is never consulted;
\* the server deafen flag is forgotten
is_muted_state_IgnoresDeaf(vs) ==
    IF vs = None THEN FALSE ELSE vs.self_mute \/ vs.mute

is_muted_state_ForgetsServerDeaf(vs) ==
    IF vs = None
    THEN FALSE
    ELSE LET muted == vs.self_mute \/ vs.mute
         IN  IF COUNT_DEAF_AS_MUTE THEN muted \/ vs.self_deaf ELSE muted

\* ------------------------------------------------------------- classifier
is_muted_state(vs) ==
    IF vs = None
    THEN FALSE
    ELSE LET muted == vs.self_mute \/ vs.mute
         IN  IF COUNT_DEAF_AS_MUTE
             THEN muted \/ vs.self_deaf \/ vs.deaf
             ELSE muted

\* vc is a VoiceChannel id or NoChannel; the guild is only known through vc
get_messageable_for_voice(vc) ==
    LET guild == IF vc # NoChannel THEN 1 ELSE 0
    IN  IF vc # NoChannel
        THEN vc
        ELSE IF FALLBACK_TEXT_CHANNEL_ID # 0 /\ guild # 0
             THEN "fallback"
             ELSE NoChannel

\* ------------------------------------------------------------------ tasks
NoTask ==
    [key |-> <<0, 0>>, vc |-> NoChannel, pc |-> "none", remaining |-> 0,
     loops |-> 0, cancel |-> FALSE, outcome |-> "none", sent |-> 0,
     dest |-> NoChannel, waited |-> 0, fellEarly |-> FALSE]

Created == {t \in TaskIds : task[t].pc # "none"}
TasksOf(k) == {t \in Created : task[t].key = k}
Suspended == {"sleep0", "send", "slice"}
Running(t) == task[t].pc \in Suspended \cup {"created"}
Live(t) == Running(t) /\ ~task[t].cancel
LastSpawn(k) == IF TasksOf(k) = {} THEN 0
                ELSE CHOOSE t \in TasksOf(k) : \A u \in TasksOf(k) : u <= t

Condition(k) == voice[k] # None /\ is_muted_state(voice[k])

InitialDelay == Max(0, REMINDER_MINUTES * 60)
\* mutant of Loops: the minutes are not converted to seconds
Loops_MinutesAsSeconds == Max(1, REPEAT_INTERVAL_MINUTES \div check_interval)
Loops == Max(1, (REPEAT_INTERVAL_MINUTES * 60) \div check_interval)
WaitCap == (Loops + 1) * check_interval

NoEvent == [key |-> <<0, 0>>, was_muted |-> FALSE, now_muted |-> FALSE]

Init ==
    /\ REMINDER_MINUTES \in 1..MaxReminderMinutes
    /\ REPEAT_INTERVAL_MINUTES \in 0..MaxRepeatMinutes
    /\ COUNT_DEAF_AS_MUTE \in BOOLEAN
    /\ FALLBACK_TEXT_CHANNEL_ID = 0
    /\ guilds = GuildIds
    /\ members = {<<1, 1>>}
    /\ voice = [k \in Keys |-> None]
    /\ mute_tasks = <<>>
    /\ task = [t \in TaskIds |-> NoTask]
    /\ sinceRise = [k \in Keys |-> InitialDelay]
    /\ falseAge = [k \in Keys |-> 2 * check_interval]
    /\ scenario = [k \in Keys |-> 0]
    /\ lastEvent = NoEvent
    /\ callArg = None
    /\ called = FALSE
    /\ callRes = FALSE

\* the configuration the code defaults to in kind: the deafen flags count, the
\* repeat interval is a whole number of minutes
InitTypical ==
    Init /\ REPEAT_INTERVAL_MINUTES = MaxRepeatMinutes /\ COUNT_DEAF_AS_MUTE

\* ---------------------------------------------------------------- registry
\* mutant of pop: the whole registry is cleared
pop_Clears(mt, key) == <<>>

\* dict.pop(key, None)
pop(mt, key) == [k \in DOMAIN mt \ {key} |-> mt[k]]
\* dict[key] = t
put(mt, key, t) == [k \in DOMAIN mt \cup {key} |-> IF k = key THEN t ELSE mt[k]]
\* Task.done()
done(tk, t) == tk[t].pc = "done"
\* Task.cancel(): a request; a finished task ignores it
cancel(tk, t) == IF done(tk, t) THEN tk ELSE [tk EXCEPT ![t].cancel = TRUE]

\* Both return the registry and the tasks after the call.
start_or_replace_timer(key, member_voice) ==
    LET prev == IF key \in DOMAIN mute_tasks THEN mute_tasks[key] ELSE 0
        tk1 == IF prev # 0 /\ ~done(task, prev) THEN cancel(task, prev) ELSE task
        vc_id == IF member_voice # None /\ member_voice.channel # NoChannel
                 THEN member_voice.channel ELSE NoChannel
        new == Cardinality(Created) + 1
    IN  [mt |-> put(mute_tasks, key, new),
         tk |-> [tk1 EXCEPT ![new] =
                    [NoTask EXCEPT !.key = key, !.vc = vc_id, !.pc = "created"]]]

\* mutant of cancel_timer: the entry is left in the registry
cancel_timer_KeepsEntry(key) ==
    LET t == IF key \in DOMAIN mute_tasks THEN mute_tasks[key] ELSE 0
    IN  [mt |-> mute_tasks,
         tk |-> IF t # 0 /\ ~done(task, t) THEN cancel(task, t) ELSE task]

cancel_timer(key) ==
    LET t == IF key \in DOMAIN mute_tasks THEN mute_tasks[key] ELSE 0
    IN  [mt |-> pop(mute_tasks, key),
         tk |-> IF t # 0 /\ ~done(task, t) THEN cancel(task, t) ELSE task]

\* ----------------------------------------------------------- reminder_task
\* mutant of Finally: the task ends without removing anything
Finally_Skipped(mt, t) == mt

\* the finally block: runs on every exit of a coroutine that has started
Finally(mt, t) == pop(mt, task[t].key)

\* the ways a task ends: a return because the guild or the member is unknown,
\* a return because the member is no longer muted (at the top of the while
\* loop, or after a slice), CancelledError ("cancelled"), an exception of
\* dest.send ("error")
Returns == {"unknown", "released", "released mid-wait"}

\* the coroutine leaves its body: return, CancelledError or another exception;
\* of a finished task only its key and the way it ended are kept
Finished(key, how) == [NoTask EXCEPT !.key = key, !.pc = "done", !.outcome = how]

\* mutant of Finish: a task that should end waits another repeat interval
Finish_WaitsOn(t, how) ==
    [mt |-> mute_tasks,
     tk |-> [task EXCEPT ![t].pc = "slice", ![t].loops = Loops,
                         ![t].remaining = check_interval]]

Finish(t, how) ==
    [mt |-> Finally(mute_tasks, t),
     tk |-> [task EXCEPT ![t] = Finished(task[t].key, how)]]

\* the for loop is entered: the first asyncio.sleep(check_interval)
EnterSlices(t) ==
    [mt |-> mute_tasks,
     tk |-> [task EXCEPT ![t].pc = "slice", ![t].loops = Loops,
                         ![t].remaining = check_interval, ![t].waited = 0]]

\* mutant of RunCheck: the member lookup is not checked
RunCheck_NoMemberCheck(t) ==
    LET key == task[t].key
        vs == voice[key]
    IN  IF key[1] \notin guilds THEN Finish(t, "unknown")
        ELSE IF vs = None \/ ~is_muted_state(vs) THEN Finish(t, "released")
        ELSE LET vc_now == IF vs.channel \in VoiceChannels
                           THEN vs.channel ELSE NoChannel
                 dest == get_messageable_for_voice(vc_now)
             IN  IF dest # NoChannel
                 THEN [mt |-> mute_tasks,
                       tk |-> [task EXCEPT ![t].pc = "send", ![t].dest = dest,
                                 ![t].sent = Min(task[t].sent + 1, MaxSent)]]
                 ELSE EnterSlices(t)

\* mutant of RunCheck: the destination is the channel the member was in when
\* the task was spawned
RunCheck_UsesSnapshot(t) ==
    LET key == task[t].key
        vs == voice[key]
    IN  IF key[1] \notin guilds THEN Finish(t, "unknown")
        ELSE IF key \notin members THEN Finish(t, "unknown")
        ELSE IF vs = None \/ ~is_muted_state(vs) THEN Finish(t, "released")
        ELSE LET vc_now == IF task[t].vc \in VoiceChannels
                           THEN task[t].vc ELSE NoChannel
                 dest == get_messageable_for_voice(vc_now)
             IN  IF dest # NoChannel
                 THEN [mt |-> mute_tasks,
                       tk |-> [task EXCEPT ![t].pc = "send", ![t].dest = dest,
                                 ![t].sent = Min(task[t].sent + 1, MaxSent)]]
                 ELSE EnterSlices(t)

\* mutant of RunCheck: a task with nowhere to notify ends
RunCheck_EndsWithoutDest(t) ==
    LET key == task[t].key
        vs == voice[key]
    IN  IF key[1] \notin guilds THEN Finish(t, "unknown")
        ELSE IF key \notin members THEN Finish(t, "unknown")
        ELSE IF vs = None \/ ~is_muted_state(vs) THEN Finish(t, "released")
        ELSE LET vc_now == IF vs.channel \in VoiceChannels
                           THEN vs.channel ELSE NoChannel
                 dest == get_messageable_for_voice(vc_now)
             IN  IF dest # NoChannel
                 THEN [mt |-> mute_tasks,
                       tk |-> [task EXCEPT ![t].pc = "send", ![t].dest = dest,
                                 ![t].sent = Min(task[t].sent + 1, MaxSent)]]
                 ELSE Finish(t, "released")

\* one pass of the while body from its top to its first suspension
RunCheck(t) ==
    LET key == task[t].key
        vs == voice[key]
    IN  IF key[1] \notin guilds THEN Finish(t, "unknown")
        ELSE IF key \notin members THEN Finish(t, "unknown")
        ELSE IF vs = None \/ ~is_muted_state(vs) THEN Finish(t, "released")
        ELSE LET vc_now == IF vs.channel \in VoiceChannels
                           THEN vs.channel ELSE NoChannel
                 dest == get_messageable_for_voice(vc_now)
             IN  IF dest # NoChannel
                 THEN [mt |-> mute_tasks,
                       tk |-> [task EXCEPT ![t].pc = "send", ![t].dest = dest,
                                 ![t].sent = Min(task[t].sent + 1, MaxSent)]]
                 ELSE EnterSlices(t)

\* mutant of RunSlice: the mute state is not re-checked after a slice
RunSlice_NoRecheck(t) ==
    IF task[t].loops > 1
    THEN [mt |-> mute_tasks,
          tk |-> [task EXCEPT ![t].loops = task[t].loops - 1,
                              ![t].remaining = check_interval]]
    ELSE RunCheck(t)

\* a slice has elapsed: re-check, then sleep again or go round the while loop
RunSlice(t) ==
    LET vs == voice[task[t].key]
    IN  IF vs = None \/ ~is_muted_state(vs) THEN Finish(t, "released mid-wait")
        ELSE IF task[t].loops > 1
             THEN [mt |-> mute_tasks,
                   tk |-> [task EXCEPT ![t].loops = task[t].loops - 1,
                                       ![t].remaining = check_interval]]
             ELSE RunCheck(t)

Apply(r) == mute_tasks' = r.mt /\ task' = r.tk

\* first step of a task that was not cancelled before it ran
TaskStart(t) ==
    /\ task[t].pc = "created" /\ ~task[t].cancel
    /\ task' = [task EXCEPT ![t].pc = "sleep0", ![t].remaining = InitialDelay]
    /\ UNCHANGED <<cfgVars, envVars, mute_tasks, ghostVars, callVars>>

\* a task cancelled before its first step never enters the coroutine body
CancelBeforeStart(t) ==
    /\ task[t].pc = "created" /\ task[t].cancel
    /\ task' = [task EXCEPT ![t] = Finished(task[t].key, "cancelled")]
    /\ UNCHANGED <<cfgVars, envVars, mute_tasks, ghostVars, callVars>>

\* CancelledError is raised at the await the task is suspended in
CancelDeliver(t) ==
    /\ task[t].pc \in Suspended /\ task[t].cancel
    /\ Apply(Finish(t, "cancelled"))
    /\ UNCHANGED <<cfgVars, envVars, ghostVars, callVars>>

\* mutant of InitialWake: the sleep returns although cancellation was requested
InitialWake_IgnoresCancel(t) ==
    /\ task[t].pc = "sleep0" /\ task[t].remaining = 0
    /\ Apply(RunCheck(t))
    /\ UNCHANGED <<cfgVars, envVars, ghostVars, callVars>>

\* asyncio.sleep(REMINDER_MINUTES * 60) returns
InitialWake(t) ==
    /\ task[t].pc = "sleep0" /\ ~task[t].cancel /\ task[t].remaining = 0
    /\ Apply(RunCheck(t))
    /\ UNCHANGED <<cfgVars, envVars, ghostVars, callVars>>

\* asyncio.sleep(check_interval) returns
SliceWake(t) ==
    /\ task[t].pc = "slice" /\ ~task[t].cancel /\ task[t].remaining = 0
    /\ Apply(RunSlice(t))
    /\ UNCHANGED <<cfgVars, envVars, ghostVars, callVars>>

\* await dest.send(text) returns
SendOk(t) ==
    /\ task[t].pc = "send" /\ ~task[t].cancel
    /\ Apply(EnterSlices(t))
    /\ UNCHANGED <<cfgVars, envVars, ghostVars, callVars>>

\* await dest.send(text) raises: nothing catches it, the finally block runs
SendRaise(t) ==
    /\ task[t].pc = "send" /\ ~task[t].cancel
    /\ Apply(Finish(t, "error"))
    /\ UNCHANGED <<cfgVars, envVars, ghostVars, callVars>>

\* ------------------------------------------------------------------ events
Flags(vs) == <<vs.self_mute, vs.mute, vs.self_deaf, vs.deaf>>
NoFlags == <<FALSE, FALSE, FALSE, FALSE>>

\* progress through: self-mute, self-deafen, unmute, un-deafen, made by a
\* member for whom no timer was ever started; 5 = some other sequence
ScenarioStep(key, before, after) ==
    LET s == scenario[key]
        fresh == TasksOf(key) = {}
        stays == after.channel # NoChannel
        rising == is_muted_state(after) /\ ~is_muted_state(before)
    IN  IF s = 0 /\ fresh /\ stays /\ Flags(before) = NoFlags
                 /\ Flags(after) = <<TRUE, FALSE, FALSE, FALSE>> THEN 1
        ELSE IF s = 0 /\ fresh /\ ~rising THEN 0
        ELSE IF s = 1 /\ stays /\ Flags(after) = <<TRUE, FALSE, TRUE, FALSE>> THEN 2
        ELSE IF s = 2 /\ stays /\ Flags(after) = <<FALSE, FALSE, TRUE, FALSE>> THEN 3
        ELSE IF s = 3 /\ stays /\ Flags(after) = NoFlags THEN 4
        ELSE 5

\* a falling edge that arrives while the key's latest task is still in its
\* initial delay is remembered on that task
MarkFell(tk, key) ==
    LET t == LastSpawn(key)
    IN  IF t # 0 /\ (task[t].pc = "created"
                      \/ (task[t].pc = "sleep0" /\ task[t].remaining > 0))
        THEN [tk EXCEPT ![t].fellEarly = TRUE]
        ELSE tk

\* mutant of on_voice_state_update: a timer is started whenever the member is
\* muted after the event, whatever it was before
on_voice_state_update_NoEdgeTest(key, before, after) ==
    LET was_muted == is_muted_state(before)
        now_muted == is_muted_state(after)
        member_voice == IF after.channel = NoChannel THEN None ELSE after
        now_cond == member_voice # None /\ now_muted
    IN  /\ key[1] \in guilds /\ key \in members
        /\ IF voice[key] = None
           THEN /\ before.channel = NoChannel /\ after.channel # NoChannel
                /\ Flags(before) \in {Flags(after), NoFlags}
           ELSE /\ before = voice[key]
                /\ after.channel = NoChannel
                      => Flags(after) \in {Flags(before), NoFlags}
        /\ after # before
        /\ voice' = [voice EXCEPT ![key] = member_voice]
        /\ IF now_muted
           THEN /\ Cardinality(Created) < MaxTasks
                /\ Apply(start_or_replace_timer(key, member_voice))
                /\ sinceRise' = [sinceRise EXCEPT ![key] = 0]
           ELSE IF ~now_muted /\ was_muted
           THEN /\ LET r == cancel_timer(key)
                   IN  mute_tasks' = r.mt /\ task' = MarkFell(r.tk, key)
                /\ UNCHANGED sinceRise
           ELSE UNCHANGED <<mute_tasks, task, sinceRise>>
        /\ falseAge' = [falseAge EXCEPT ![key] =
                           IF now_cond \/ Condition(key) THEN 0 ELSE @]
        /\ scenario' = [scenario EXCEPT ![key] = ScenarioStep(key, before, after)]
        /\ lastEvent' = [key |-> key, was_muted |-> was_muted, now_muted |-> now_muted]
        /\ UNCHANGED <<cfgVars, guilds, members, callVars>>

\* The handler, for one event of member key.  The platform has updated
\* member.voice before it dispatches: before is the cached state, after the new
\* one.  For a member joining voice, before has no channel and carries either
\* no flag or the flags of after; for a member leaving, after has no channel
\* and carries either no flag or the flags of before.
on_voice_state_update(key, before, after) ==
    LET was_muted == is_muted_state(before)
        now_muted == is_muted_state(after)
        member_voice == IF after.channel = NoChannel THEN None ELSE after
        now_cond == member_voice # None /\ now_muted
    IN  /\ key[1] \in guilds /\ key \in members
        /\ IF voice[key] = None
           THEN /\ before.channel = NoChannel /\ after.channel # NoChannel
                /\ Flags(before) \in {Flags(after), NoFlags}
           ELSE /\ before = voice[key]
                /\ after.channel = NoChannel
                      => Flags(after) \in {Flags(before), NoFlags}
        /\ after # before
        /\ voice' = [voice EXCEPT ![key] = member_voice]
        /\ IF now_muted /\ ~was_muted
           THEN /\ Cardinality(Created) < MaxTasks
                /\ Apply(start_or_replace_timer(key, member_voice))
                /\ sinceRise' = [sinceRise EXCEPT ![key] = 0]
           ELSE IF ~now_muted /\ was_muted
           THEN /\ LET r == cancel_timer(key)
                   IN  mute_tasks' = r.mt /\ task' = MarkFell(r.tk, key)
                /\ UNCHANGED sinceRise
           ELSE UNCHANGED <<mute_tasks, task, sinceRise>>
        /\ falseAge' = [falseAge EXCEPT ![key] =
                           IF now_cond \/ Condition(key) THEN 0 ELSE @]
        /\ scenario' = [scenario EXCEPT ![key] = ScenarioStep(key, before, after)]
        /\ lastEvent' = [key |-> key, was_muted |-> was_muted, now_muted |-> now_muted]
        /\ UNCHANGED <<cfgVars, guilds, members, callVars>>

\* the bot is removed from the guild: bot.get_guild returns None from now on
GuildRemove(g) ==
    /\ g \in guilds
    /\ guilds' = guilds \ {g}
    /\ UNCHANGED <<cfgVars, members, voice, mute_tasks, task, ghostVars, callVars>>

\* the member leaves the guild: guild.get_member returns None from now on
MemberRemove(key) ==
    /\ key \in members
    /\ members' = members \ {key}
    /\ UNCHANGED <<cfgVars, guilds, voice, mute_tasks, task, ghostVars, callVars>>

\* -------------------------------------------------------------------- time
Ready(t) ==
    \/ task[t].pc \in {"created", "send"}
    \/ task[t].pc \in Suspended /\ task[t].cancel
    \/ task[t].pc \in {"sleep0", "slice"} /\ task[t].remaining = 0

Sleeping(t) == task[t].pc \in {"sleep0", "slice"}

Tick ==
    /\ \A t \in TaskIds : ~Ready(t)
    /\ \E t \in TaskIds : Sleeping(t)
    /\ task' = [t \in TaskIds |->
                  IF Sleeping(t)
                  THEN [task[t] EXCEPT
                          !.remaining = @ - check_interval,
                          !.waited = IF task[t].pc = "slice"
                                     THEN Min(@ + check_interval, WaitCap)
                                     ELSE @]
                  ELSE task[t]]
    /\ sinceRise' = [k \in Keys |-> Min(sinceRise[k] + check_interval, InitialDelay)]
    /\ falseAge' = [k \in Keys |->
                      IF Condition(k) THEN 0
                      ELSE Min(falseAge[k] + check_interval, 2 * check_interval)]
    /\ UNCHANGED <<cfgVars, envVars, mute_tasks, scenario, lastEvent, callVars>>

\* ----------------------------------------------------------- specification
Steps ==
    \/ \E g \in GuildIds : GuildRemove(g)
    \/ \E key \in Keys : MemberRemove(key)
    \/ \E t \in TaskIds : TaskStart(t)
    \/ \E t \in TaskIds : CancelBeforeStart(t)
    \/ \E t \in TaskIds : CancelDeliver(t)
    \/ \E t \in TaskIds : InitialWake(t)
    \/ \E t \in TaskIds : SliceWake(t)
    \/ \E t \in TaskIds : SendOk(t)
    \/ \E t \in TaskIds : SendRaise(t)
    \/ Tick

Next ==
    \/ \E key \in Keys, before \in EventVoiceStates, after \in EventVoiceStates :
          on_voice_state_update(key, before, after)
    \/ Steps

Spec == Init /\ [][Next]_vars

\* the same system in its typical configuration, its member also moving
\* through a stage channel
NextStage ==
    \/ \E key \in Keys, before \in StageVoiceStates, after \in StageVoiceStates :
          on_voice_state_update(key, before, after)
    \/ Steps

SpecStage == InitTypical /\ [][NextStage]_vars

\* a direct call of the classifier on any status record or None
Classify(vs) ==
    /\ callArg' = vs
    /\ called' = TRUE
    /\ callRes' = is_muted_state(vs)
    /\ UNCHANGED <<cfgVars, envVars, mute_tasks, task, ghostVars>>

NextClassify == \E vs \in AllVoiceStates \cup {None} : Classify(vs)

SpecClassify == Init /\ [][NextClassify]_vars

\* -------------------------------------------------------------- vocabulary
Unresolvable(key) == key[1] \notin guilds \/ key \notin members
Registered(t) == task[t].key \in DOMAIN mute_tasks /\ mute_tasks[task[t].key] = t
\* the step in which task t calls dest.send
Sends(t) == task[t].pc # "send" /\ task'[t].pc = "send"
\* the step is one of task t's own: it moves on in its coroutine
OwnStep(t) == task'[t].pc # task[t].pc \/ task'[t].loops # task[t].loops
\* the step in which task t runs the lookup at the top of the while loop
LookupStep(t) ==
    /\ OwnStep(t) /\ ~task[t].cancel
    /\ \/ task[t].pc = "sleep0"
       \/ task[t].pc = "slice" /\ task[t].loops = 1 /\ Condition(task[t].key)

\* ------------------------------------------------------------------ claims

\* C1: in every reachable state a key has at most one live reminder task
\* (created, not finished, no cancellation requested).
C1_AtMostOneLiveTask ==
    \A key \in Keys : Cardinality({t \in TasksOf(key) : Live(t)}) <= 1

\* C2: a key is in the registry if and only if a reminder task for it is
\* suspended or executing, and the registered handle is that task's.
C2_RegistryInvariant ==
    \A key \in Keys :
        /\ key \in DOMAIN mute_tasks <=> \E t \in TasksOf(key) : Live(t)
        /\ key \in DOMAIN mute_tasks =>
              /\ task[mute_tasks[key]].key = key
              /\ Running(mute_tasks[key])

\* C3: a task whose rising edge was followed by a falling edge before its
\* initial delay had elapsed sends no notification.
C3_NoNotificationAfterEarlyFall ==
    \A t \in TaskIds : task[t].fellEarly => task[t].sent = 0

\* C4: no notification is sent in the step of an event, and none is sent less
\* than the initial delay after the key's most recent rising edge.
C4_NoNotificationBeforeDelay ==
    [][\A t \in TaskIds :
          Sends(t) => /\ voice' = voice
                      /\ sinceRise[task[t].key] >= InitialDelay]_vars

\* C5: a task in the repeat wait whose key's Condition has become false ends at
\* its next slice boundary, at most one slice later, without sending again.
C5_UnmuteEndsTaskWithinOneSlice ==
    /\ [](\A t \in TaskIds :
             task[t].pc = "slice" =>
                /\ falseAge[task[t].key] <= check_interval
                /\ falseAge[task[t].key] = check_interval => task[t].remaining = 0)
    /\ [][\A t \in TaskIds :
             (task[t].pc = "slice" /\ ~task[t].cancel /\ OwnStep(t)
                 /\ ~Condition(task[t].key))
             => (task'[t].pc = "done" /\ task'[t].outcome = "released mid-wait")]_vars

C5_Witness ==
    \E t \in TaskIds :
        /\ task[t].pc = "done" /\ task[t].outcome = "released mid-wait"
        /\ ~Condition(task[t].key)
        /\ falseAge[task[t].key] = check_interval

C7_TheTask(key) == CHOOSE t \in TasksOf(key) : TRUE

C7_EdgesOfCondition ==
    /\ [](COUNT_DEAF_AS_MUTE =>
            \A key \in Keys :
               /\ scenario[key] \in 1..4 => Cardinality(TasksOf(key)) = 1
               /\ scenario[key] \in 1..3 =>
                     /\ ~task[C7_TheTask(key)].cancel
                     /\ Running(C7_TheTask(key)) => Registered(C7_TheTask(key))
               /\ scenario[key] = 4 =>
                     /\ key \notin DOMAIN mute_tasks
                     /\ ~Live(C7_TheTask(key))
                     /\ task[C7_TheTask(key)].fellEarly
                           => task[C7_TheTask(key)].sent = 0)
    /\ [][COUNT_DEAF_AS_MUTE =>
            \A key \in Keys, t \in TaskIds :
               (task[t].key = key /\ scenario[key] = 4 /\ scenario'[key] = 4)
               => ~Sends(t)]_vars

C7_Witness ==
    \E key \in Keys :
        /\ COUNT_DEAF_AS_MUTE /\ scenario[key] = 4
        /\ task[C7_TheTask(key)].pc = "sleep0"
        /\ task[C7_TheTask(key)].cancel /\ task[C7_TheTask(key)].fellEarly

\* C8: a task that runs its lookup while its guild or member is unresolvable
\* returns (no error), the registry then holds no entry for its key, and a task
\* of an unresolvable key sends nothing.
C8_VanishedEndsTask ==
    [][\A t \in TaskIds :
          (task[t].pc # "none" /\ Unresolvable(task[t].key)) =>
             /\ ~Sends(t)
             /\ LookupStep(t) =>
                   /\ task'[t].pc = "done" /\ task'[t].outcome = "unknown"
                   /\ task[t].key \notin DOMAIN mute_tasks']_vars

C8_Witness ==
    \E t \in TaskIds :
        /\ task[t].pc = "done" /\ task[t].outcome = "unknown"
        /\ Unresolvable(task[t].key) /\ Condition(task[t].key)
        /\ task[t].key \notin DOMAIN mute_tasks

\* C9: is_muted_state returns self_mute or mute or (COUNT_DEAF_AS_MUTE and
\* (self_deaf or deaf)) for a status record, and false for None.
C9_ClassifierFormula ==
    called =>
       callRes = IF callArg = None THEN FALSE
                 ELSE \/ callArg.self_mute
                      \/ callArg.mute
                      \/ COUNT_DEAF_AS_MUTE /\ (callArg.self_deaf \/ callArg.deaf)

C9_Witness ==
    /\ called /\ callArg # None /\ callRes /\ COUNT_DEAF_AS_MUTE
    /\ ~callArg.self_mute /\ ~callArg.mute /\ ~callArg.self_deaf /\ callArg.deaf

\* C10: a failure of dest.send does not end the task: no task ends with the
\* error of a send.
C10_SendFailureDoesNotEndTask ==
    \A t \in TaskIds : task[t].outcome # "error"

\* C11: a task that ends while the registry holds another task's handle for
\* its key leaves that entry in place.
C11_StaleCleanupKeepsNewerEntry ==
    [][\A t \in TaskIds :
          (/\ task[t].pc \in Suspended /\ task'[t].pc = "done"
           /\ task[t].key \in DOMAIN mute_tasks
           /\ mute_tasks[task[t].key] # t)
          => /\ task[t].key \in DOMAIN mute_tasks'
             /\ mute_tasks'[task[t].key] = mute_tasks[task[t].key]]_vars

\* C12: the registry never maps a key to a finished task, and the step in
\* which a task that has started executing ends (return, CancelledError or an
\* exception of dest.send) leaves no entry for its key.
C12_CleanupOnEveryExit ==
    /\ [](\A key \in DOMAIN mute_tasks : ~done(task, mute_tasks[key]))
    /\ [][\A t \in TaskIds :
             (task[t].pc \in Suspended /\ task'[t].pc = "done")
             => task[t].key \notin DOMAIN mute_tasks']_vars

\* a registered task has ended on each exit path: a return at the lookup, a
\* return after a slice, a cancellation, an exception
C12_Witness ==
    /\ mute_tasks = <<>>
    /\ \E t \in TaskIds : task[t].outcome = "error"
    /\ \E t \in TaskIds : task[t].outcome = "cancelled"
    /\ \E t \in TaskIds : task[t].outcome \in Returns

\* the step spawns task t (start_or_replace_timer has run)
Spawns(t) == task[t].pc = "none" /\ task'[t].pc = "created"

\* C13: in the step of start_or_replace_timer(key), an unfinished task
\* registered for key gets a cancellation request, the registry entry for key
\* becomes the freshly spawned task, and afterwards no other task of that key
\* is live without a cancellation request.
C13_StartOrReplace ==
    [][\A t \in TaskIds :
          Spawns(t) =>
             LET key == task'[t].key
             IN  /\ (key \in DOMAIN mute_tasks /\ ~done(task, mute_tasks[key]))
                       => task'[mute_tasks[key]].cancel
                 /\ key \in DOMAIN mute_tasks' /\ mute_tasks'[key] = t
                 /\ \A u \in TaskIds \ {t} :
                       task'[u].key = key =>
                          ~(task'[u].pc \in Suspended \cup {"created"}
                              /\ ~task'[u].cancel)]_vars

\* the step is the handler's falling-edge branch: cancel_timer has run
Cancels(key) ==
    /\ voice' # voice /\ lastEvent'.key = key
    /\ lastEvent'.was_muted /\ ~lastEvent'.now_muted

\* the task without the mark the falling edge leaves on it
Unmarked(r) == [r EXCEPT !.fellEarly = FALSE]

\* C14: in the step of cancel_timer(key) the key leaves the registry and an
\* unfinished registered task gets a cancellation request; every other task,
\* and every task when the key is absent or its task has finished, is
\* unchanged; a second cancel_timer(key) right after changes nothing.
C14_CancelIdempotent ==
    [][\A key \in Keys :
          Cancels(key) =>
             LET t == IF key \in DOMAIN mute_tasks THEN mute_tasks[key] ELSE 0
                 hit == t # 0 /\ ~done(task, t)
             IN  /\ key \notin DOMAIN mute_tasks'
                 /\ \A k \in Keys \ {key} :
                       /\ k \in DOMAIN mute_tasks' <=> k \in DOMAIN mute_tasks
                       /\ k \in DOMAIN mute_tasks => mute_tasks'[k] = mute_tasks[k]
                 /\ hit => /\ task'[t].cancel
                           /\ Unmarked(task'[t]) =
                                 Unmarked([task[t] EXCEPT !.cancel = TRUE])
                 /\ \A u \in TaskIds :
                       (~hit \/ u # t) => Unmarked(task'[u]) = Unmarked(task[u])
                 /\ cancel_timer(key)' = [mt |-> mute_tasks', tk |-> task']]_vars

\* a falling edge has cancelled the registered task of a key one of whose
\* earlier tasks had removed itself
C14_Witness ==
    /\ lastEvent.was_muted /\ ~lastEvent.now_muted
    /\ lastEvent.key \notin DOMAIN mute_tasks
    /\ \E t \in TaskIds :
          task[t].key = lastEvent.key /\ Running(t) /\ task[t].cancel
    /\ \E u \in TaskIds :
          task[u].key = lastEvent.key /\ task[u].outcome \in Returns \cup {"error"}

\* the step is the handler's, for an event of key
EventOf(key) == voice' # voice /\ lastEvent'.key = key

\* C15: an event whose before and after statuses classify alike changes
\* neither the registry nor any task: nothing is spawned, cancelled or sent.
C15_NoEdgeNoAction ==
    [][\A key \in Keys :
          (EventOf(key) /\ lastEvent'.was_muted = lastEvent'.now_muted)
          => /\ mute_tasks' = mute_tasks
             /\ task' = task]_vars

\* a member with a live registered task has changed status, muted before and
\* after, and the task is as it was
C15_Witness ==
    /\ lastEvent.was_muted /\ lastEvent.now_muted
    /\ voice[lastEvent.key] # None
    /\ voice[lastEvent.key].self_mute /\ voice[lastEvent.key].self_deaf
    /\ \E t \in TaskIds :
          task[t].key = lastEvent.key /\ Registered(t) /\ Live(t)

\* The scheduler is fair to every task: a task that can run its next step
\* does, a send completes, and time passes.  Events are not obliged to occur.
Fairness ==
    /\ \A t \in TaskIds :
          /\ WF_vars(TaskStart(t))
          /\ WF_vars(CancelBeforeStart(t))
          /\ WF_vars(CancelDeliver(t))
          /\ WF_vars(InitialWake(t))
          /\ WF_vars(SliceWake(t))
          /\ WF_vars(SendOk(t) \/ SendRaise(t))
    /\ WF_vars(Tick)

SpecFair == InitTypical /\ [][Next]_vars /\ Fairness

\* the step in which task t, its cancellation requested, ends
CancelledEnds(t) == task[t].cancel /\ task[t].pc # "done" /\ task'[t].pc = "done"

\* what C16 says of every task but the way it ends: a cancellation request
\* stays until the task ends, the task sends nothing after it and ends, and
\* Task.cancel leaves a finished task as it is
C16_CancelStopsTask ==
    /\ [](\A t \in TaskIds : done(task, t) => cancel(task, t) = task)
    /\ [][\A t \in TaskIds :
             task[t].cancel =>
                /\ ~Sends(t)
                /\ task'[t].cancel \/ CancelledEnds(t)
                /\ CancelledEnds(t) => task'[t].outcome = "cancelled"]_vars
    /\ \A t \in TaskIds : task[t].cancel ~> done(task, t)

\* C16 (as stated): a task whose cancellation was requested sends nothing
\* afterwards and ends, and it ends through its cleanup: from one of its awaits,
\* by CancelledError, its finally block run.
C16_CancelledEndsThroughCleanup ==
    /\ C16_CancelStopsTask
    /\ [][\A t \in TaskIds :
             CancelledEnds(t) => task[t].pc \in Suspended]_vars

\* C16 (amended): a task whose cancellation was requested sends nothing
\* afterwards and ends; one cancelled at an await ends through its cleanup, one
\* cancelled before its first step ends without running its body or its
\* cleanup, its entry already removed or replaced by the canceller.
C16_CancelledEndsWithoutNotifying ==
    /\ C16_CancelStopsTask
    /\ [][\A t \in TaskIds :
             CancelledEnds(t) =>
                IF task[t].pc \in Suspended
                THEN task[t].key \notin DOMAIN mute_tasks'
                ELSE /\ task[t].pc = "created"
                     /\ mute_tasks' = mute_tasks
                     /\ ~Registered(t)]_vars

\* a task cancelled in its repeat wait, after it had notified, has ended
C16_Witness ==
    \E t \in TaskIds :
        /\ task[t].pc = "slice" /\ task[t].sent > 0 /\ task[t].cancel
        /\ task[t].key \notin DOMAIN mute_tasks

\* the destination the lookup of a task of key resolves, from member.voice
DestNow(key) ==
    get_messageable_for_voice(IF voice[key].channel \in VoiceChannels
                              THEN voice[key].channel ELSE NoChannel)

\* C17: a task calls dest.send only in the step of a lookup that found its
\* guild and its member and found the member muted, and dest is the channel
\* the member is in at that lookup, whatever channel it was spawned in.
C17_SendsAfterCheckToCurrentChannel ==
    [][\A t \in TaskIds :
          Sends(t) =>
             /\ LookupStep(t)
             /\ voice' = voice
             /\ ~Unresolvable(task[t].key)
             /\ Condition(task[t].key)
             /\ task'[t].dest = voice[task[t].key].channel
             /\ task'[t].dest \in VoiceChannels]_vars

\* a task spawned while its member was in a stage channel notifies in the
\* voice channel the member has moved to
C17_Witness ==
    \E t \in TaskIds :
        /\ task[t].pc = "send" /\ task[t].vc = "stage" /\ task[t].dest = "vc1"
        /\ voice[task[t].key] # None /\ voice[task[t].key].channel = "vc1"

\* C18: a lookup that finds the member muted and resolves no destination sends
\* nothing and does not end the task: the task enters the repeat wait, its
\* registration as it was, and the lookup after that wait is run as any other.
C18_NoDestinationSkipsRound ==
    [][\A t \in TaskIds :
          (/\ LookupStep(t)
           /\ ~Unresolvable(task[t].key)
           /\ Condition(task[t].key)
           /\ DestNow(task[t].key) = NoChannel)
          => /\ ~Sends(t)
             /\ task'[t].pc = "slice" /\ ~task'[t].cancel
             /\ task'[t].loops = Loops /\ task'[t].remaining = check_interval
             /\ task'[t].sent = task[t].sent
             /\ mute_tasks' = mute_tasks]_vars

\* a registered task that found no destination after its initial delay has
\* waited a whole repeat interval without sending and is about to look again
C18_Witness ==
    \E t \in TaskIds :
        /\ task[t].pc = "slice" /\ task[t].loops = 1 /\ task[t].remaining = 0
        /\ task[t].waited = Loops * check_interval
        /\ task[t].sent = 0 /\ Live(t) /\ Registered(t)
        /\ Condition(task[t].key) /\ DestNow(task[t].key) = NoChannel

\* every task ever spawned for key has ended and the registry has no entry for it
Quiet(key) ==
    /\ key \notin DOMAIN mute_tasks
    /\ \A t \in TaskIds : task[t].key = key => done(task, t)

\* C19: if from some point on the Condition of a key stays false, or the key
\* stays unresolvable, then from some point on every task spawned for the key
\* has ended and the registry holds no entry for it.
C19_NoLeakedTimers ==
    \A key \in Keys :
        <>[](~Condition(key) \/ Unresolvable(key)) => <>[]Quiet(key)

\* a task that no falling edge reached (no cancellation was requested: it
\* returned at its own lookup) has ended, its member out of voice, and nothing
\* is left of the key's timers
C19_Witness ==
    \E t \in TaskIds :
        /\ task[t].outcome = "released"
        /\ ~Condition(task[t].key) /\ ~Unresolvable(task[t].key)
        /\ Quiet(task[t].key)
        /\ lastEvent.was_muted /\ lastEvent.now_muted

\* ------------------------------------------------------------- two members
\* the statuses the members of the two-member model move through: self-muted
\* or not, in one voice channel
TwoVoiceStates ==
    {VoiceState(sm, FALSE, FALSE, FALSE, "vc1") : sm \in BOOLEAN}

\* the typical configuration, both members of the guild resolvable and in the
\* voice channel, not muted, before the bot has seen an event
InitTwo ==
    /\ REMINDER_MINUTES = MaxReminderMinutes
    /\ REPEAT_INTERVAL_MINUTES = MaxRepeatMinutes
    /\ COUNT_DEAF_AS_MUTE = TRUE
    /\ FALLBACK_TEXT_CHANNEL_ID = 0
    /\ guilds = GuildIds
    /\ members = Keys
    /\ voice = [k \in Keys |-> VoiceState(FALSE, FALSE, FALSE, FALSE, "vc1")]
    /\ mute_tasks = <<>>
    /\ task = [t \in TaskIds |-> NoTask]
    /\ sinceRise = [k \in Keys |-> InitialDelay]
    /\ falseAge = [k \in Keys |-> 2 * check_interval]
    /\ scenario = [k \in Keys |-> 0]
    /\ lastEvent = NoEvent
    /\ callArg = None
    /\ called = FALSE
    /\ callRes = FALSE

NextTwo ==
    \/ \E key \in Keys, before \in TwoVoiceStates, after \in TwoVoiceStates :
          on_voice_state_update(key, before, after)
    \/ Steps

SpecTwo == InitTwo /\ [][NextTwo]_vars

\* the step belongs to key: an event of its member, or a step (its first, a
\* wake-up, a send completing, a cancellation delivered, its end and cleanup)
\* of one of its tasks
ActsFor(key) ==
    \/ EventOf(key)
    \/ \E t \in TaskIds : task[t].key = key /\ OwnStep(t)

\* C20: a step that belongs to key a leaves the registry entry of every other
\* key b as it was, and requests the cancellation of no task of b, ends none
\* and moves none.
C20_KeysIndependent ==
    [][\A a \in Keys, b \in Keys :
          (a # b /\ ActsFor(a)) =>
             /\ b \in DOMAIN mute_tasks' <=> b \in DOMAIN mute_tasks
             /\ b \in DOMAIN mute_tasks => mute_tasks'[b] = mute_tasks[b]
             /\ \A u \in TaskIds :
                   task[u].key = b =>
                      /\ task'[u].key = b
                      /\ task'[u].pc = task[u].pc
                      /\ task'[u].cancel = task[u].cancel
                      /\ task'[u].outcome = task[u].outcome]_vars

\* a cancelled task of one member has run its cleanup, which took the entry of
\* that member's newer task with it, while the other member's task is
\* registered and waiting
C20_Witness ==
    \E a \in Keys, b \in Keys :
        /\ a # b
        /\ a \notin DOMAIN mute_tasks
        /\ \E t \in TaskIds : task[t].key = a /\ task[t].outcome = "cancelled"
        /\ \E t \in TaskIds : task[t].key = a /\ Live(t)
        /\ \E u \in TaskIds :
              task[u].key = b /\ Registered(u) /\ Live(u) /\ task[u].pc = "slice"

====
